---- MODULE Spec2Model ----
(***************************************************************************)
(* A model of src/app.py: the contact store accessor, the address          *)
(* validator, the template renderer / HTML file generator and the HTTP     *)
(* endpoints that drive them.  One request is served at a time; a request  *)
(* is a walk of pc through its handler: each call of the store accessor in *)
(* two steps (the connection, then the try / finally block), the validator *)
(* and the generator each as one step.  The store, the validation service  *)
(* and the file system are the environment: each call of them succeeds or  *)
(* fails by a nondeterministic choice.                                     *)
(***************************************************************************)
EXTENDS Integers, Sequences, FiniteSets

\* ------------------------------------------------------------------ bounds
\* The largest number of rows in public.contacts.
MaxContacts == 3
\* The largest number of candidates in the validation service's JSON array.
MaxCandidates == 1

\* ------------------------------------------------------------------ values
\* Python values that reach the `valid` column or the credentials: None, a
\* string, the boolean False, a JSON array of n candidates.
NoneV == [t |-> "none", s |-> "", n |-> 0]
Str(x) == [t |-> "str", s |-> x, n |-> 0]
FalseV == [t |-> "bool", s |-> "", n |-> 0]
Payload(k) == [t |-> "list", s |-> "", n |-> k]

\* Python truthiness (`if x`, `not x`) of such a value.
Truthy(v) ==
    CASE v.t = "none" -> FALSE
      [] v.t = "str"  -> v.s /= ""
      [] v.t = "bool" -> FALSE
      [] v.t = "list" -> v.n > 0

\* The values SMARTY_AUTH_ID / SMARTY_AUTH_TOKEN take: unset, empty, set.
AuthIds == {NoneV, Str(""), Str("id")}
AuthTokens == {NoneV, Str(""), Str("token")}

\* The `valid` column before this application ever wrote it.
InitialStatuses == {NoneV, Str("valid"), Str("invalid")}

\* The rows of the store, and their place in ORDER BY last_name, first_name:
\* ids are assigned by the store and are independent of the name order.
Ids(n) == 1..n
IdAt(n, j) == n + 1 - j

\* The outcomes of one requests.get(url, params, timeout=10).
NonOkCodes == {401, 500}
NoOutcome == [kind |-> "none", code |-> 0, n |-> 0]
HttpOutcomes ==
    {[kind |-> "response", code |-> 200, n |-> k] : k \in 0..MaxCandidates}
    \cup {[kind |-> "response", code |-> c, n |-> 0] : c \in NonOkCodes}
    \cup {[kind |-> "transport", code |-> 0, n |-> 0]}
    \cup {[kind |-> "badjson", code |-> 200, n |-> 0]}

\* get_template_files
TemplateStyles == {"modern", "dark", "neon", "retro"}
get_template_files(style) ==
    CASE style = "modern" -> "modern_template.html"
      [] style = "dark"   -> "dark_template.html"
      [] style = "neon"   -> "neon_template.html"
      [] style = "retro"  -> "retro_template.html"

\* app.config['TEMPLATE_STYLE'] when the environment does not set it.
DefaultTemplateStyle == "random"
DefaultOutputFilename == "index.html"

\* What a request body of POST /api/generate may ask for ("" : key absent).
StyleInputs == {"", "neon", "bogus"}
FilenameInputs == {"", "report.html"}
Filenames == {DefaultOutputFilename, "report.html"}

NoResp == [status |-> 0, error |-> "", contacts |-> <<>>, count |-> 0,
           style |-> "", path |-> ""]
NoReq == [kind |-> "none", id |-> 0, style |-> "", filename |-> ""]
NoHtml == [template |-> "", rows |-> <<>>]
NoExc == [type |-> "none", at |-> ""]
DbError(where) == [type |-> "psycopg2.Error", at |-> where]

VARIABLES
    authId,      \* app.config['SMARTY_AUTH_ID']
    authToken,   \* app.config['SMARTY_AUTH_TOKEN']
    nrows,       \* the number of rows of public.contacts
    db,          \* the committed `valid` column, by contact id
    validatorWrote, \* the ids whose `valid` this application has written
    openConns,   \* connections opened and not yet closed
    outDir,      \* whether app.config['OUTPUT_DIR'] exists
    files,       \* the names of the files under OUTPUT_DIR
    pc,          \* the statement the request in progress is at
    req,         \* the request being served, or served last
    contacts,    \* the handler's local `contacts`
    idx,         \* the position in `contacts` of the contact being validated
    validated,   \* the handler's local `validated_contacts`
    result,      \* the handler's local `validation_result`
    outcomes,    \* this request's HTTP outcome for each contact id
    netCalls,    \* this request's number of requests.get calls, by contact id
    exc,         \* the exception that ended the request, and where it was raised
    html,        \* the document this request rendered
    written,     \* the files this request wrote `html` to
    resp         \* the response of the request

vars == <<authId, authToken, nrows, db, validatorWrote, openConns, outDir, files, pc, req,
          contacts, idx, validated, result, outcomes, netCalls, exc, html,
          written, resp>>

config == <<authId, authToken, nrows>>
fsys == <<outDir, files>>
locals == <<contacts, idx, validated, result, outcomes, netCalls, html, written>>

Init ==
    /\ authId \in AuthIds
    /\ authToken \in AuthTokens
    /\ nrows \in 0..MaxContacts
    /\ db \in [Ids(nrows) -> InitialStatuses]
    /\ validatorWrote = {}
    /\ openConns = 0
    /\ outDir \in BOOLEAN
    /\ files \in IF outDir THEN SUBSET Filenames ELSE {{}}
    /\ pc = "idle"
    /\ req = NoReq
    /\ contacts = <<>>
    /\ idx = 0
    /\ validated = <<>>
    /\ result = NoneV
    /\ outcomes = [i \in Ids(nrows) |-> NoOutcome]
    /\ netCalls = [i \in Ids(nrows) |-> 0]
    /\ exc = NoExc
    /\ html = NoHtml
    /\ written = {}
    /\ resp = NoResp

\* ------------------------------------------------------ handle_db_errors
ErrorResp(status, msg) == [NoResp EXCEPT !.status = status, !.error = msg]

\* The decorator's two except clauses.
handle_db_errors(e) ==
    IF e.type = "psycopg2.Error"
    THEN ErrorResp(500, "Database connection failed")
    ELSE ErrorResp(500, "Internal server error")

\* An exception leaves the handler: the decorator turns it into the response.
Raise(e) ==
    /\ exc' = e
    /\ resp' = handle_db_errors(e)
    /\ pc' = "done"

\* ------------------------------------------------------------ store access
\* The rows of SELECT ... ORDER BY last_name, first_name, as dicts.
Rows == [j \in 1..nrows |-> [id |-> IdAt(nrows, j), valid |-> db[IdAt(nrows, j)]]]

\* get_db_connection, called by fetch_contacts before its try block.
FetchConnect ==
    /\ pc = "fetch_connect"
    /\ \E ok \in BOOLEAN :
          IF ok
          THEN /\ openConns' = openConns + 1
               /\ pc' = "fetch_query"
               /\ UNCHANGED <<exc, resp>>
          ELSE /\ openConns' = openConns
               /\ Raise(DbError("fetch_connect"))
    /\ UNCHANGED <<config, db, validatorWrote, fsys, req, locals>>

\* fetch_contacts once connected: the try block (the query, the materialised
\* rows; ok: whether the store answers) and the finally block, conn.close(),
\* which runs on both paths.  closed counts the connections it closed.
fetch_contacts(ok) ==
    IF ok
    THEN [rows |-> Rows, exc |-> NoExc, closed |-> 1]
    ELSE [rows |-> <<>>, exc |-> DbError("fetch_query"), closed |-> 1]

\* The handler's call of fetch_contacts returns or re-raises.
FetchRows ==
    /\ pc = "fetch_query"
    /\ \E ok \in BOOLEAN :
          LET f == fetch_contacts(ok) IN
            /\ openConns' = openConns - f.closed
            /\ IF f.exc = NoExc
               THEN /\ contacts' = f.rows
                    /\ pc' = "fetched"
                    /\ UNCHANGED <<exc, resp>>
               ELSE /\ contacts' = contacts
                    /\ Raise(f.exc)
    /\ UNCHANGED <<config, db, validatorWrote, fsys, req, idx, validated,
                   result, outcomes, netCalls, html, written>>

\* get_db_connection, called by update_validation_status before its try block.
UpdateConnect ==
    /\ pc = "update_connect"
    /\ \E ok \in BOOLEAN :
          IF ok
          THEN /\ openConns' = openConns + 1
               /\ pc' = "update_execute"
               /\ UNCHANGED <<exc, resp>>
          ELSE /\ openConns' = openConns
               /\ Raise(DbError("update_connect"))
    /\ UNCHANGED <<config, db, validatorWrote, fsys, req, locals>>

\* The id the handler passes to update_validation_status: contact['id'] in
\* api_validate_addresses, the path's contact_id in
\* api_validate_single_address.
UpdateTarget ==
    IF req.kind = "validate_one" THEN req.id ELSE contacts[idx].id

\* UPDATE contacts SET valid = %s WHERE id = %s, committed.
Committed(contact_id, validation_status) ==
    [i \in DOMAIN db |-> IF i = contact_id THEN validation_status ELSE db[i]]

\* How the try block of update_validation_status ends.
UpdateFaults == {"none", "execute", "commit"}

\* Variant of update_validation_status: the row is written although the
\* commit failed.
update_validation_status_autocommit(contact_id, validation_status, fault) ==
    CASE fault = "none" ->
            [db |-> Committed(contact_id, validation_status), exc |-> NoExc,
             closed |-> 1]
      [] fault = "execute" ->
            [db |-> db, exc |-> DbError("update_execute"), closed |-> 1]
      [] fault = "commit" ->
            [db |-> Committed(contact_id, validation_status),
             exc |-> DbError("update_commit"), closed |-> 1]

\* Variant of update_validation_status: conn.close() after the try block
\* instead of in a finally block.
update_validation_status_no_finally(contact_id, validation_status, fault) ==
    CASE fault = "none" ->
            [db |-> Committed(contact_id, validation_status), exc |-> NoExc,
             closed |-> 1]
      [] fault = "execute" ->
            [db |-> db, exc |-> DbError("update_execute"), closed |-> 0]
      [] fault = "commit" ->
            [db |-> db, exc |-> DbError("update_commit"), closed |-> 0]

\* update_validation_status once connected: the try block (cursor.execute,
\* conn.commit) and the finally block, conn.close(), which runs on every
\* path.  A connection closed before its commit succeeded leaves the table
\* as it was.
update_validation_status(contact_id, validation_status, fault) ==
    CASE fault = "none" ->
            [db |-> Committed(contact_id, validation_status), exc |-> NoExc,
             closed |-> 1]
      [] fault = "execute" ->
            [db |-> db, exc |-> DbError("update_execute"), closed |-> 1]
      [] fault = "commit" ->
            [db |-> db, exc |-> DbError("update_commit"), closed |-> 1]

\* The handler's call of update_validation_status returns or re-raises.
UpdateRun ==
    /\ pc = "update_execute"
    /\ \E fault \in UpdateFaults :
          LET u == update_validation_status(UpdateTarget, result, fault) IN
            /\ openConns' = openConns - u.closed
            /\ db' = u.db
            /\ IF u.exc = NoExc
               THEN /\ pc' = "updated"
                    /\ validatorWrote' = validatorWrote \cup {UpdateTarget}
                    /\ UNCHANGED <<exc, resp>>
               ELSE /\ validatorWrote' = validatorWrote
                    /\ Raise(u.exc)
    /\ UNCHANGED <<config, fsys, req, locals>>

\* ------------------------------------------------------ address validator
\* Variant of InterpretOutcome: one sentinel for both kinds of failure.
InterpretOutcome_one_sentinel(o) ==
    CASE o.kind = "transport" -> Str("Validation Failed")
      [] o.kind = "response" /\ o.code /= 200 -> Str("Validation Failed")
      [] o.kind = "response" /\ o.code = 200 ->
            IF Truthy(Payload(o.n)) /\ o.n > 0 THEN Payload(o.n) ELSE FalseV

\* What validate_address_smarty returns for an outcome it has a branch for.
InterpretOutcome(o) ==
    CASE o.kind = "transport" -> Str("Validation Failed")
      [] o.kind = "response" /\ o.code /= 200 -> Str("API Error")
      [] o.kind = "response" /\ o.code = 200 ->
            IF Truthy(Payload(o.n)) /\ o.n > 0 THEN Payload(o.n) ELSE FalseV

\* Variant of validate_address_smarty: no except clause, a transport failure
\* propagates to the caller.
validate_address_smarty_no_except(auth_id, auth_token, o, caught) ==
    IF ~Truthy(auth_id) \/ ~Truthy(auth_token)
    THEN [result |-> Str("Not Validated"), exc |-> NoExc, calls |-> 0,
          outcome |-> NoOutcome]
    ELSE IF o.kind \in {"badjson", "transport"}
         THEN [result |-> NoneV,
               exc |-> [type |-> "RequestException", at |-> "validate"],
               calls |-> 1, outcome |-> o]
         ELSE [result |-> InterpretOutcome(o), exc |-> NoExc, calls |-> 1,
               outcome |-> o]

\* Variant of validate_address_smarty: only the credential id is tested.
validate_address_smarty_id_only(auth_id, auth_token, o, caught) ==
    IF ~Truthy(auth_id)
    THEN [result |-> Str("Not Validated"), exc |-> NoExc, calls |-> 0,
          outcome |-> NoOutcome]
    ELSE IF o.kind = "badjson"
         THEN IF caught
              THEN [result |-> Str("Validation Failed"), exc |-> NoExc,
                    calls |-> 1, outcome |-> o]
              ELSE [result |-> NoneV, exc |-> [type |-> "ValueError", at |-> "validate"],
                    calls |-> 1, outcome |-> o]
         ELSE [result |-> InterpretOutcome(o), exc |-> NoExc, calls |-> 1,
               outcome |-> o]

\* Variant of validate_address_smarty: a transport failure is retried once.
validate_address_smarty_retry(auth_id, auth_token, o, caught) ==
    IF ~Truthy(auth_id) \/ ~Truthy(auth_token)
    THEN [result |-> Str("Not Validated"), exc |-> NoExc, calls |-> 0,
          outcome |-> NoOutcome]
    ELSE IF o.kind = "badjson"
         THEN IF caught
              THEN [result |-> Str("Validation Failed"), exc |-> NoExc,
                    calls |-> 1, outcome |-> o]
              ELSE [result |-> NoneV, exc |-> [type |-> "ValueError", at |-> "validate"],
                    calls |-> 1, outcome |-> o]
         ELSE [result |-> InterpretOutcome(o), exc |-> NoExc,
               calls |-> IF o.kind = "transport" THEN 2 ELSE 1, outcome |-> o]

\* validate_address_smarty.  o is how the HTTP request ends if it is made;
\* calls counts the requests.get made.  A 200 body that is not JSON makes
\* response.json() raise: a requests.RequestException in one version of
\* requests (caught), a ValueError in another (not caught).
validate_address_smarty(auth_id, auth_token, o, caught) ==
    IF ~Truthy(auth_id) \/ ~Truthy(auth_token)
    THEN [result |-> Str("Not Validated"), exc |-> NoExc, calls |-> 0,
          outcome |-> NoOutcome]
    ELSE IF o.kind = "badjson"
         THEN IF caught
              THEN [result |-> Str("Validation Failed"), exc |-> NoExc,
                    calls |-> 1, outcome |-> o]
              ELSE [result |-> NoneV, exc |-> [type |-> "ValueError", at |-> "validate"],
                    calls |-> 1, outcome |-> o]
         ELSE [result |-> InterpretOutcome(o), exc |-> NoExc, calls |-> 1,
               outcome |-> o]

\* ------------------------------------------------------ template renderer
\* Variant of select_template_style: the requested name is returned as it is.
select_template_style_as_requested(template_style, choice) ==
    template_style

\* select_template_style; `choice` is what random.choice picks among the
\* keys of get_template_files.
select_template_style(template_style, choice) ==
    IF template_style = "random" THEN choice ELSE template_style

\* load_template: template_files.get(template_style, template_files["modern"]).
TemplateFilename(template_style) ==
    IF template_style \in TemplateStyles
    THEN get_template_files(template_style)
    ELSE get_template_files("modern")

\* Variant of get_validation_attributes: any truthy status but 'invalid'
\* counts as valid.
get_validation_attributes_truthy(valid_status) ==
    IF valid_status = Str("invalid")
    THEN <<"invalid", "invalid-badge", "Invalid Address">>
    ELSE IF Truthy(valid_status)
         THEN <<"valid", "valid-badge", "Valid Address">>
         ELSE <<"not-validated", "not-validated-badge", "Not Validated">>

\* get_validation_attributes: (css class, badge class, validation text).
get_validation_attributes(valid_status) ==
    IF valid_status = Str("valid")
    THEN <<"valid", "valid-badge", "Valid Address">>
    ELSE IF valid_status = Str("invalid")
         THEN <<"invalid", "invalid-badge", "Invalid Address">>
         ELSE <<"not-validated", "not-validated-badge", "Not Validated">>

\* prepare_contact_data: each contact with its three display attributes.
prepare_contact_data(cs) ==
    [j \in 1..Len(cs) |->
        LET a == get_validation_attributes(cs[j].valid) IN
          [id |-> cs[j].id, valid |-> cs[j].valid, css_class |-> a[1],
           badge_class |-> a[2], validation_text |-> a[3]]]

\* render_custom_template: the document is the template's text bound to the
\* prepared contacts (the timestamp is left out).
render_custom_template(template_filename, prepared) ==
    [template |-> template_filename, rows |-> prepared]

\* generate_html_file: makedirs, the style, the template (onDisk: whether its
\* file exists), the rendering, the write.  mkdir / wrote say what it did to
\* the file system before it returned or raised.
generate_html_file(cs, template_style, output_filename, choice, onDisk) ==
    LET selected_style == select_template_style(template_style, choice)
        filename == TemplateFilename(selected_style)
    IN IF ~onDisk
       THEN [exc |-> [type |-> "FileNotFoundError", at |-> "load_template"],
             mkdir |-> TRUE, wrote |-> {}, html |-> NoHtml,
             output_path |-> "", selected_style |-> ""]
       ELSE [exc |-> NoExc, mkdir |-> TRUE, wrote |-> {output_filename},
             html |-> render_custom_template(filename, prepare_contact_data(cs)),
             output_path |-> output_filename, selected_style |-> selected_style]

\* ---------------------------------------------------------------- handlers
\* `if not contacts`
NoContacts(cs) == cs = <<>>

\* next((c for c in contacts if c['id'] == contact_id), None): the position
\* of the first such contact, 0 for None.
FindContact(cs, contact_id) ==
    IF \E j \in 1..Len(cs) : cs[j].id = contact_id
    THEN CHOOSE j \in 1..Len(cs) :
            /\ cs[j].id = contact_id
            /\ \A k \in 1..(j - 1) : cs[k].id /= contact_id
    ELSE 0

\* The ids a request path may name: the id of a row (the last in name order)
\* and an id of no row.
RequestIds == {1, MaxContacts + 1}

\* The framework dispatches request r to its handler when none is in
\* progress.
Dispatch(r) ==
    /\ pc = "idle"
    /\ req' = r
    /\ UNCHANGED <<config, db, validatorWrote, openConns, fsys, locals>>

\* Every handler but api_generate_html starts with its call of fetch_contacts.
Handle(r) ==
    /\ Dispatch(r)
    /\ pc' = "fetch_connect"
    /\ UNCHANGED <<exc, resp>>

\* GET /api/contacts
api_contacts ==
    Handle([NoReq EXCEPT !.kind = "contacts"])

\* POST /api/validate
api_validate_addresses ==
    Handle([NoReq EXCEPT !.kind = "validate_all"])

\* POST /api/validate/<int:contact_id>
api_validate_single_address ==
    \E contact_id \in RequestIds :
        Handle([NoReq EXCEPT !.kind = "validate_one", !.id = contact_id])

\* POST /api/generate: request.get_json() or {}, then the two data.get with
\* their defaults.  A body that is not JSON is None in one Flask and an
\* exception in another: both are outcomes.
api_generate_html ==
    \/ \E st \in StyleInputs, fn \in FilenameInputs :
          Handle([kind |-> "generate", id |-> 0,
                  style |-> IF st = "" THEN DefaultTemplateStyle ELSE st,
                  filename |-> IF fn = "" THEN DefaultOutputFilename ELSE fn])
    \/ /\ Dispatch([NoReq EXCEPT !.kind = "generate"])
       /\ Raise([type |-> "Exception", at |-> "get_json"])

\* The response is sent; the handler's locals are gone.
Respond ==
    /\ pc = "done"
    /\ pc' = "idle"
    /\ req' = NoReq
    /\ contacts' = <<>>
    /\ idx' = 0
    /\ validated' = <<>>
    /\ result' = NoneV
    /\ outcomes' = [i \in Ids(nrows) |-> NoOutcome]
    /\ netCalls' = [i \in Ids(nrows) |-> 0]
    /\ exc' = NoExc
    /\ html' = NoHtml
    /\ written' = {}
    /\ resp' = NoResp
    /\ UNCHANGED <<config, db, validatorWrote, openConns, fsys>>

\* api_contacts after fetch_contacts.
ContactsRespond ==
    /\ pc = "fetched"
    /\ req.kind = "contacts"
    /\ resp' = [NoResp EXCEPT !.status = 200, !.contacts = contacts,
                              !.count = Len(contacts)]
    /\ pc' = "done"
    /\ UNCHANGED <<config, db, validatorWrote, openConns, fsys, req, locals, exc>>

\* api_validate_addresses after fetch_contacts: the empty test, then the loop.
ValidateAllStart ==
    /\ pc = "fetched"
    /\ req.kind = "validate_all"
    /\ IF NoContacts(contacts)
       THEN /\ resp' = ErrorResp(404, "No contacts found")
            /\ pc' = "done"
            /\ idx' = idx
       ELSE /\ resp' = resp
            /\ pc' = "validate"
            /\ idx' = 1
    /\ UNCHANGED <<config, db, validatorWrote, openConns, fsys, req, contacts, validated,
                   result, outcomes, netCalls, exc, html, written>>

\* api_validate_single_address after fetch_contacts: the lookup by id.
ValidateOneStart ==
    /\ pc = "fetched"
    /\ req.kind = "validate_one"
    /\ LET j == FindContact(contacts, req.id) IN
          IF j = 0
          THEN /\ resp' = ErrorResp(404, "Contact not found")
               /\ pc' = "done"
               /\ idx' = idx
          ELSE /\ resp' = resp
               /\ pc' = "validate"
               /\ idx' = j
    /\ UNCHANGED <<config, db, validatorWrote, openConns, fsys, req, contacts, validated,
                   result, outcomes, netCalls, exc, html, written>>

\* The handler's call of validate_address_smarty for contacts[idx].
ValidateCall ==
    /\ pc = "validate"
    /\ \E o \in HttpOutcomes, caught \in BOOLEAN :
          LET v == validate_address_smarty(authId, authToken, o, caught)
              id == contacts[idx].id
          IN /\ result' = v.result
             /\ outcomes' = [outcomes EXCEPT ![id] = v.outcome]
             /\ netCalls' = [netCalls EXCEPT ![id] = @ + v.calls]
             /\ IF v.exc = NoExc
                THEN /\ pc' = "update_connect"
                     /\ UNCHANGED <<exc, resp>>
                ELSE Raise(v.exc)
    /\ UNCHANGED <<config, db, validatorWrote, openConns, fsys, req, contacts, idx,
                   validated, html, written>>

\* api_validate_addresses after update_validation_status: contact['valid'] =
\* validation_result, the append, and the next contact or the response.
ValidateAllAdvance ==
    /\ pc = "updated"
    /\ req.kind = "validate_all"
    /\ contacts' = [contacts EXCEPT ![idx].valid = result]
    /\ validated' = Append(validated, contacts'[idx])
    /\ IF idx < Len(contacts)
       THEN /\ idx' = idx + 1
            /\ result' = NoneV
            /\ pc' = "validate"
            /\ resp' = resp
       ELSE /\ idx' = idx
            /\ result' = result
            /\ pc' = "done"
            /\ resp' = [NoResp EXCEPT !.status = 200, !.contacts = validated',
                                      !.count = Len(validated')]
    /\ UNCHANGED <<config, db, validatorWrote, openConns, fsys, req, outcomes, netCalls,
                   exc, html, written>>

\* api_validate_single_address after update_validation_status.
ValidateOneRespond ==
    /\ pc = "updated"
    /\ req.kind = "validate_one"
    /\ contacts' = [contacts EXCEPT ![idx].valid = result]
    /\ resp' = [NoResp EXCEPT !.status = 200, !.contacts = <<contacts'[idx]>>,
                              !.count = 1]
    /\ pc' = "done"
    /\ UNCHANGED <<config, db, validatorWrote, openConns, fsys, req, idx, validated,
                   result, outcomes, netCalls, exc, html, written>>

\* Variant of GenerateHtml: no empty test before generate_html_file.
GenerateHtml_no_empty_test ==
    /\ pc = "fetched"
    /\ req.kind = "generate"
    /\ \E choice \in TemplateStyles, onDisk \in BOOLEAN :
          LET g == generate_html_file(contacts, req.style, req.filename,
                                      choice, onDisk)
          IN /\ outDir' = (outDir \/ g.mkdir)
             /\ files' = files \cup g.wrote
             /\ written' = g.wrote
             /\ html' = g.html
             /\ exc' = g.exc
             /\ resp' = IF g.exc /= NoExc
                        THEN ErrorResp(400, "Template file not found")
                        ELSE [NoResp EXCEPT !.status = 200,
                                            !.path = g.output_path,
                                            !.style = g.selected_style,
                                            !.count = Len(contacts)]
    /\ pc' = "done"
    /\ UNCHANGED <<config, db, validatorWrote, openConns, req, contacts, idx, validated,
                   result, outcomes, netCalls>>

\* api_generate_html after fetch_contacts: the empty test, generate_html_file
\* and the except FileNotFoundError.
GenerateHtml ==
    /\ pc = "fetched"
    /\ req.kind = "generate"
    /\ IF NoContacts(contacts)
       THEN /\ resp' = ErrorResp(404, "No contacts found")
            /\ UNCHANGED <<fsys, html, written, exc>>
       ELSE \E choice \in TemplateStyles, onDisk \in BOOLEAN :
               LET g == generate_html_file(contacts, req.style, req.filename,
                                           choice, onDisk)
               IN /\ outDir' = (outDir \/ g.mkdir)
                  /\ files' = files \cup g.wrote
                  /\ written' = g.wrote
                  /\ html' = g.html
                  /\ exc' = g.exc
                  /\ resp' = IF g.exc /= NoExc
                             THEN ErrorResp(400, "Template file not found")
                             ELSE [NoResp EXCEPT !.status = 200,
                                                 !.path = g.output_path,
                                                 !.style = g.selected_style,
                                                 !.count = Len(contacts)]
    /\ pc' = "done"
    /\ UNCHANGED <<config, db, validatorWrote, openConns, req, contacts, idx, validated,
                   result, outcomes, netCalls>>

\* ------------------------------------------------------------ specification
Next ==
    \/ api_contacts
    \/ api_validate_addresses
    \/ api_validate_single_address
    \/ api_generate_html
    \/ FetchConnect
    \/ FetchRows
    \/ ContactsRespond
    \/ ValidateAllStart
    \/ ValidateOneStart
    \/ ValidateCall
    \/ UpdateConnect
    \/ UpdateRun
    \/ ValidateAllAdvance
    \/ ValidateOneRespond
    \/ GenerateHtml
    \/ Respond

Spec == Init /\ [][Next]_vars


\* ------------------------------------------------------------------ claims
CredentialsPresent == Truthy(authId) /\ Truthy(authToken)

\* The handler is past its call of validate_address_smarty for contacts[idx]
\* and that call returned.
ValidatorReturned == pc \in {"update_connect", "update_execute", "updated"}

\* The request in progress has ended with the exception of a store operation.
StoreFailed == exc.at \in {"fetch_connect", "fetch_query", "update_connect",
                           "update_execute", "update_commit"}

\* C4: whenever the credential id or the credential token is absent or
\* empty, validate_address_smarty returns "Not Validated" and makes no
\* network call.
C4_NoCredentialsNoCall ==
    ~CredentialsPresent =>
        /\ \A i \in Ids(nrows) : netCalls[i] = 0 /\ outcomes[i] = NoOutcome
        /\ ValidatorReturned => result = Str("Not Validated")
        /\ exc.at /= "validate"

C4_Witness ==
    /\ authId = Str("id")
    /\ authToken = Str("")
    /\ pc = "updated"
    /\ result = Str("Not Validated")
    /\ netCalls[contacts[idx].id] = 0

\* C5: with both credentials present, one invocation of
\* validate_address_smarty issues exactly one HTTP request, and its result is
\* fixed by that request's outcome: a 200 with a non-empty array gives the
\* array, a 200 with an empty array gives False, another status gives
\* "API Error", a transport failure gives "Validation Failed".
C5_OneRequestOneResult ==
    CredentialsPresent =>
        /\ \A i \in Ids(nrows) :
              netCalls[i] = IF outcomes[i] = NoOutcome THEN 0 ELSE 1
        /\ ValidatorReturned =>
              LET o == outcomes[contacts[idx].id] IN
                /\ netCalls[contacts[idx].id] = 1
                /\ (o.kind = "response" /\ o.code = 200 /\ o.n > 0)
                      => result = Payload(o.n)
                /\ (o.kind = "response" /\ o.code = 200 /\ o.n = 0)
                      => result = FalseV
                /\ (o.kind = "response" /\ o.code /= 200)
                      => result = Str("API Error")
                /\ o.kind = "transport" => result = Str("Validation Failed")

C5_Witness ==
    /\ CredentialsPresent
    /\ pc = "updated"
    /\ outcomes[contacts[idx].id].kind = "transport"
    /\ netCalls[contacts[idx].id] = 1
    /\ result = Str("Validation Failed")

\* C10: every store connection opened by fetch_contacts or
\* update_validation_status is closed by the time the call returns or
\* re-raises: a connection is open only inside such a call, and none is open
\* when a request has ended, a partly done POST /api/validate included.
C10_ConnectionsClosed ==
    openConns = IF pc \in {"fetch_query", "update_execute"} THEN 1 ELSE 0

C10_Witness ==
    /\ pc = "done"
    /\ req.kind = "validate_all"
    /\ exc.at = "update_commit"
    /\ idx = 2
    /\ resp.status = 500
    /\ openConns = 0

\* The sentinel validate_address_smarty returns for a failed HTTP call.
IsValidatorError(o) ==
    \/ o.kind = "transport"
    \/ o.kind = "response" /\ o.code /= 200

Sentinel(o) ==
    IF o.kind = "transport" THEN Str("Validation Failed") ELSE Str("API Error")

\* C2: in POST /api/validate and POST /api/validate/<id>, a validator HTTP
\* call that ends in a non-200 status or in a transport failure never makes
\* the request fail: with the store healthy, the contact's stored status
\* becomes the matching sentinel ("API Error" / "Validation Failed"), the
\* request does not end at that call, and it ends with HTTP 200 when every
\* validator call of the request ended that way.
C2_ValidatorErrorsAreResults ==
    (pc = "done" /\ req.kind \in {"validate_all", "validate_one"} /\ ~StoreFailed) =>
        /\ \A i \in Ids(nrows) :
              IsValidatorError(outcomes[i]) =>
                 /\ db[i] = Sentinel(outcomes[i])
                 /\ ~(exc.at = "validate" /\ contacts[idx].id = i)
                 /\ exc = NoExc => resp.status = 200
        /\ ( /\ \E i \in Ids(nrows) : outcomes[i] /= NoOutcome
             /\ \A i \in Ids(nrows) :
                   outcomes[i] /= NoOutcome => IsValidatorError(outcomes[i]) )
           => resp.status = 200

C2_Witness ==
    /\ pc = "done"
    /\ req.kind = "validate_one"
    /\ req.id \in Ids(nrows)
    /\ outcomes[req.id].kind = "response"
    /\ outcomes[req.id].code = 401
    /\ resp.status = 200
    /\ db[req.id] = Str("API Error")

\* C3: in POST /api/validate over the contacts c1..cn in store order, when
\* the store write for ck fails the request ends with HTTP 500, the stored
\* statuses of c1..c(k-1) are the results written in this request, those of
\* ck..cn are what they were, and no validator call is made for a contact
\* after ck.
C3_PartialValidateAll ==
    (pc = "done" /\ req.kind = "validate_all"
        /\ exc.at \in {"update_connect", "update_execute", "update_commit"}) =>
        /\ resp.status = 500
        /\ Len(validated) = idx - 1
        /\ \A j \in 1..(idx - 1) :
              /\ validated[j].id = contacts[j].id
              /\ db[contacts[j].id] = validated[j].valid
        /\ \A j \in idx..Len(contacts) :
              /\ contacts[j].id \notin {validated[m].id : m \in 1..Len(validated)}
              /\ db[contacts[j].id] = contacts[j].valid
        /\ \A j \in (idx + 1)..Len(contacts) :
              /\ netCalls[contacts[j].id] = 0
              /\ outcomes[contacts[j].id] = NoOutcome

C3_Witness ==
    /\ pc = "done"
    /\ req.kind = "validate_all"
    /\ exc.at = "update_execute"
    /\ Len(contacts) = 3
    /\ idx = 2
    /\ netCalls[contacts[1].id] = 1
    /\ netCalls[contacts[2].id] = 1
    /\ netCalls[contacts[3].id] = 0
    /\ db[contacts[1].id] = Str("API Error")
    /\ db[contacts[2].id] = Str("valid")
    /\ result = Str("Validation Failed")

\* C1 as stated: in POST /api/validate over 3 contacts, a transport failure
\* of the validator call for contact 2 ends the request with HTTP 500 while
\* the update already made for contact 1 remains committed.
C1_TransportFailureAborts ==
    (pc = "done" /\ req.kind = "validate_all" /\ Len(contacts) = 3
        /\ outcomes[contacts[2].id].kind = "transport") =>
        /\ resp.status = 500
        /\ db[contacts[1].id] = validated[1].valid

\* C1, amended: in POST /api/validate over 3 contacts, a transport failure
\* of the validator call for contact 2 does not end the request: the call
\* returns "Validation Failed", the handler goes on to the store update of
\* contact 2, and the request ends with HTTP 200 unless a store operation or
\* a later validator call raises; the update already made for contact 1
\* remains committed throughout.
C1_TransportFailureIsAResult ==
    (req.kind = "validate_all" /\ Len(contacts) = 3
        /\ outcomes[contacts[2].id].kind = "transport") =>
        /\ idx >= 2
        /\ db[contacts[1].id] = validated[1].valid
        /\ (idx = 2 /\ ValidatorReturned) => result = Str("Validation Failed")
        /\ pc = "done" =>
              /\ exc = NoExc =>
                    /\ resp.status = 200
                    /\ db[contacts[2].id] = Str("Validation Failed")
              /\ resp.status = 500 =>
                    \/ StoreFailed
                    \/ exc.at = "validate" /\ idx = 3

C1_Witness ==
    /\ pc = "done"
    /\ req.kind = "validate_all"
    /\ Len(contacts) = 3
    /\ outcomes[contacts[2].id].kind = "transport"
    /\ resp.status = 200
    /\ db[contacts[2].id] = Str("Validation Failed")

\* C6: when fetch_contacts returns no contact, POST /api/generate answers
\* HTTP 404 with an error body and neither creates the output directory nor
\* writes or overwrites a file.
C6_NoContactsNoFile ==
    [][(pc = "fetched" /\ req.kind = "generate" /\ contacts = <<>>) =>
          /\ resp'.status = 404
          /\ resp'.error = "No contacts found"
          /\ files' = files
          /\ outDir' = outDir
          /\ written' = {}
          /\ html' = NoHtml]_vars

C6_Witness ==
    /\ pc = "done"
    /\ req.kind = "generate"
    /\ nrows = 0
    /\ exc = NoExc
    /\ resp.status = 404
    /\ files = {DefaultOutputFilename}
    /\ written = {}

\* C7: a requested style "random" resolves to one of modern, dark, neon,
\* retro: that style's template is rendered, and the style a generation
\* returns is never "random".
C7_RandomResolves ==
    (pc = "done" /\ req.kind = "generate" /\ resp.status = 200) =>
        /\ resp.style /= "random"
        /\ req.style = "random" =>
              /\ resp.style \in TemplateStyles
              /\ html.template = get_template_files(resp.style)

C7_Witness ==
    /\ pc = "done"
    /\ req.kind = "generate"
    /\ req.style = "random"
    /\ resp.status = 200
    /\ resp.style = "retro"
    /\ html.template = "retro_template.html"

\* C8: the renderer maps a stored status to its display triple in three
\* ways: exactly 'valid' to the valid triple, exactly 'invalid' to the
\* invalid triple, anything else to the not-validated triple; so a contact
\* whose status this application's validator wrote renders as
\* "Not Validated".
C8_ThreeWayMapping ==
    (pc = "done" /\ req.kind = "generate" /\ resp.status = 200) =>
        /\ Len(html.rows) = nrows
        /\ \A j \in 1..Len(html.rows) :
              LET r == html.rows[j]
                  a == <<r.css_class, r.badge_class, r.validation_text>>
              IN /\ r.valid = db[r.id]
                 /\ r.valid = Str("valid")
                       => a = <<"valid", "valid-badge", "Valid Address">>
                 /\ r.valid = Str("invalid")
                       => a = <<"invalid", "invalid-badge", "Invalid Address">>
                 /\ r.valid \notin {Str("valid"), Str("invalid")}
                       => a = <<"not-validated", "not-validated-badge",
                                "Not Validated">>
                 /\ r.id \in validatorWrote => r.validation_text = "Not Validated"

C8_Witness ==
    /\ pc = "done"
    /\ req.kind = "generate"
    /\ resp.status = 200
    /\ \E j, k, l \in 1..Len(html.rows) :
          /\ html.rows[j].valid = Str("valid")
          /\ html.rows[j].validation_text = "Valid Address"
          /\ html.rows[k].valid = Str("invalid")
          /\ html.rows[k].validation_text = "Invalid Address"
          /\ html.rows[l].id \in validatorWrote
          /\ html.rows[l].valid = Payload(1)
          /\ html.rows[l].validation_text = "Not Validated"

\* C9 as stated: a style name that is neither one of the four styles nor
\* "random" renders the modern template and the style returned is "modern";
\* the style returned is always one of the four.
C9_UnknownStyleReturnsModern ==
    (pc = "done" /\ req.kind = "generate" /\ resp.status = 200) =>
        /\ resp.style \in TemplateStyles
        /\ req.style \notin (TemplateStyles \cup {"random"}) =>
              /\ html.template = get_template_files("modern")
              /\ resp.style = "modern"

====
